---------------------------- MODULE Spec2Model ----------------------------
(***************************************************************************)
(* A model of the weather MCP server (src/src/service.rs,                  *)
(* src/src/formatters.rs, src/src/models.rs, src/src/constants.rs).        *)
(*                                                                         *)
(* Text.  A Rust String is modelled as a sequence of tokens.  Every        *)
(* decimal digit, "-" and "." produced by a number conversion is a token   *)
(* of its own; the literal pieces of a format string are tokens that hold  *)
(* no digit.  Concatenation is \o, and str::contains is a search for a     *)
(* contiguous run of tokens.                                               *)
(*                                                                         *)
(* Numbers.  An f64 coordinate is held in thousandths of a degree          *)
(* (40.404 is 40404); an f64 measurement is held in tenths.  i32 values    *)
(* are integers.                                                           *)
(***************************************************************************)
EXTENDS Integers, Sequences, FiniteSets, TLC

VARIABLES
    inv,    \* inv[i]: the i-th tool invocation running on the Weather instance
    pure    \* the last pure-function application (formatter, classifier)

vars == <<inv, pure>>

---------------------------------------------------------------------------
(* Bounds *)

MaxInv == 2

MaxAlerts == 2

MaxDays == 10

MaxRagged == 2

---------------------------------------------------------------------------
(* Text helpers *)

DigitChars == <<"0", "1", "2", "3", "4", "5", "6", "7", "8", "9">>

IsDigit(tok) == \E d \in 1..10 : DigitChars[d] = tok

RECURSIVE FmtNat(_)
FmtNat(n) == IF n < 10 THEN <<DigitChars[n + 1]>>
             ELSE FmtNat(n \div 10) \o <<DigitChars[(n % 10) + 1]>>

\* Display of an integer (i32, usize, the numeric part of a StatusCode)
FmtInt(n) == IF n < 0 THEN <<"-">> \o FmtNat(0 - n) ELSE FmtNat(n)

\* Display ("{}") of an f64 held in thousandths: the shortest decimal that
\* reads back as the same value, so no trailing zeros and no ".0"
FmtF64(m) ==
    LET a    == IF m < 0 THEN 0 - m ELSE m
        fr   == a % 1000
        d1   == DigitChars[(fr \div 100) + 1]
        d2   == DigitChars[((fr \div 10) % 10) + 1]
        d3   == DigitChars[(fr % 10) + 1]
        frac == IF fr = 0 THEN <<>>
                ELSE IF fr % 10 # 0 THEN <<".", d1, d2, d3>>
                ELSE IF fr % 100 # 0 THEN <<".", d1, d2>>
                ELSE <<".", d1>>
    IN  (IF m < 0 THEN <<"-">> ELSE <<>>) \o FmtNat(a \div 1000) \o frac

\* "{:.4}" of an f64 held in thousandths
FmtF64Prec4(m) ==
    LET a  == IF m < 0 THEN 0 - m ELSE m
        fr == a % 1000
    IN  (IF m < 0 THEN <<"-">> ELSE <<>>) \o FmtNat(a \div 1000)
        \o <<".", DigitChars[(fr \div 100) + 1], DigitChars[((fr \div 10) % 10) + 1],
             DigitChars[(fr % 10) + 1], "0">>

\* "{:.1}" of an f64 held in tenths
FmtF64Prec1(t) ==
    LET a == IF t < 0 THEN 0 - t ELSE t
    IN  (IF t < 0 THEN <<"-">> ELSE <<>>) \o FmtNat(a \div 10)
        \o <<".", DigitChars[(a % 10) + 1]>>

\* str::contains: pat occurs in text as a contiguous run
Contains(text, pat) ==
    \E p \in 1..(Len(text) - Len(pat) + 1) :
        SubSeq(text, p, p + Len(pat) - 1) = pat

\* the number of occurrences of the token tok in text
Count(text, tok) == Cardinality({p \in 1..Len(text) : text[p] = tok})

RECURSIVE Concat(_)
Concat(ss) == IF ss = <<>> THEN <<>> ELSE Head(ss) \o Concat(Tail(ss))

\* Option<T>: None is the empty sequence, Some(v) the one-element sequence
None == <<>>

Some(v) == <<v>>

---------------------------------------------------------------------------
(* constants.rs *)

NWS_API_BASE == <<"https://api.weather.gov">>

OPEN_METEO_API_BASE == <<"https://api.open-meteo.com/v", "1">>

---------------------------------------------------------------------------
(* formatters.rs *)

\* the block numbered with the 0-based index itself
AlertBlock_zero_based(i, props) ==
    <<"Alert ">> \o FmtInt(i) \o <<":\n">>
    \o <<"  Event: ">> \o props.event \o <<"\n">>
    \o <<"  Severity: ">> \o props.severity \o <<"\n">>
    \o <<"  Area: ">> \o props.area_desc \o <<"\n">>
    \o (IF props.headline # None
        THEN <<"  Headline: ">> \o props.headline[1] \o <<"\n">>
        ELSE <<>>)
    \o (IF props.description # None
        THEN <<"  Description: ">> \o props.description[1] \o <<"\n">>
        ELSE <<>>)
    \o <<"\n">>

\* the block with a Headline line written whether or not there is a headline
AlertBlock_headline_always(i, props) ==
    <<"Alert ">> \o FmtInt(i + 1) \o <<":\n">>
    \o <<"  Event: ">> \o props.event \o <<"\n">>
    \o <<"  Severity: ">> \o props.severity \o <<"\n">>
    \o <<"  Area: ">> \o props.area_desc \o <<"\n">>
    \o <<"  Headline: ">>
    \o (IF props.headline # None THEN props.headline[1] ELSE <<>>) \o <<"\n">>
    \o (IF props.description # None
        THEN <<"  Description: ">> \o props.description[1] \o <<"\n">>
        ELSE <<>>)
    \o <<"\n">>

\* One iteration of the loop of format_alerts; i is the 0-based index that
\* enumerate() yields
AlertBlock(i, props) ==
    <<"Alert ">> \o FmtInt(i + 1) \o <<":\n">>
    \o <<"  Event: ">> \o props.event \o <<"\n">>
    \o <<"  Severity: ">> \o props.severity \o <<"\n">>
    \o <<"  Area: ">> \o props.area_desc \o <<"\n">>
    \o (IF props.headline # None
        THEN <<"  Headline: ">> \o props.headline[1] \o <<"\n">>
        ELSE <<>>)
    \o (IF props.description # None
        THEN <<"  Description: ">> \o props.description[1] \o <<"\n">>
        ELSE <<>>)
    \o <<"\n">>

format_alerts(alerts) ==
    IF alerts.features = <<>>
    THEN <<"No active weather alerts.">>
    ELSE <<"Active Weather Alerts:\n\n">>
         \o Concat([k \in 1..Len(alerts.features) |->
                       AlertBlock(k - 1, alerts.features[k].properties)])

PeriodBlock(period) ==
    period.name \o <<":\n">>
    \o <<"  Temperature: ">> \o FmtInt(period.temperature) \o <<"°">>
    \o period.temperature_unit \o <<"\n">>
    \o <<"  Wind: ">> \o period.wind_speed \o <<" ">> \o period.wind_direction \o <<"\n">>
    \o <<"  Conditions: ">> \o period.short_forecast \o <<"\n">>
    \o <<"  Details: ">> \o period.detailed_forecast \o <<"\n\n">>

format_forecast(forecast) ==
    <<"Weather Forecast:\n\n">>
    \o Concat([k \in 1..Len(forecast.properties.periods) |->
                  PeriodBlock(forecast.properties.periods[k])])

\* the table with each group of codes taken as a range
weather_code_to_description_ranges(code) ==
    CASE code = 0 -> "Clear sky"
      [] code = 1 -> "Mainly clear"
      [] code = 2 -> "Partly cloudy"
      [] code = 3 -> "Overcast"
      [] code \in 45..48 -> "Foggy"
      [] code \in 51..55 -> "Drizzle"
      [] code \in 61..65 -> "Rain"
      [] code \in 71..75 -> "Snow"
      [] code = 77 -> "Snow grains"
      [] code \in 80..82 -> "Rain showers"
      [] code \in 85..86 -> "Snow showers"
      [] code = 95 -> "Thunderstorm"
      [] code \in 96..99 -> "Thunderstorm with hail"
      [] OTHER -> "Unknown"

weather_code_to_description(code) ==
    CASE code = 0 -> "Clear sky"
      [] code = 1 -> "Mainly clear"
      [] code = 2 -> "Partly cloudy"
      [] code = 3 -> "Overcast"
      [] code \in {45, 48} -> "Foggy"
      [] code \in {51, 53, 55} -> "Drizzle"
      [] code \in {61, 63, 65} -> "Rain"
      [] code \in {71, 73, 75} -> "Snow"
      [] code = 77 -> "Snow grains"
      [] code \in {80, 81, 82} -> "Rain showers"
      [] code \in {85, 86} -> "Snow showers"
      [] code = 95 -> "Thunderstorm"
      [] code \in {96, 99} -> "Thunderstorm with hail"
      [] OTHER -> "Unknown"

\* What a call of a formatter comes to: it returns a String, or it panics
\* (an index out of bounds unwinds the task that runs the handler)
Returned(text) == [returned |-> TRUE, text |-> text]

Panicked == [returned |-> FALSE, text |-> <<>>]

\* the loop run over every entry of daily.time, without the cut at 7
OpenMeteoDays_untruncated(forecast) == Len(forecast.daily.time)

\* The number of iterations of the loop: 0..forecast.daily.time.len().min(7)
OpenMeteoDays(forecast) ==
    IF Len(forecast.daily.time) < 7 THEN Len(forecast.daily.time) ELSE 7

\* One iteration of the loop of format_open_meteo_forecast; i is 1-based here
OpenMeteoBlock(forecast, i) ==
    forecast.daily.time[i] \o <<":\n">>
    \o <<"  Temperature: ">> \o FmtF64Prec1(forecast.daily.temperature_min[i])
    \o <<"°">> \o forecast.daily_units.temperature_max
    \o <<" - ">> \o FmtF64Prec1(forecast.daily.temperature_max[i])
    \o <<"°">> \o forecast.daily_units.temperature_max \o <<"\n">>
    \o <<"  Conditions: ", weather_code_to_description(forecast.daily.weather_code[i]), "\n">>
    \o <<"  Wind Speed: ">> \o FmtF64Prec1(forecast.daily.wind_speed_max[i])
    \o <<" ">> \o forecast.daily_units.wind_speed_max \o <<"\n">>
    \o <<"  Precipitation: ">> \o FmtF64Prec1(forecast.daily.precipitation_sum[i])
    \o <<" ">> \o forecast.daily_units.precipitation_sum \o <<"\n\n">>

\* Vec indexing is bounds-checked: reading index i of a shorter Vec panics
OpenMeteoInBounds(forecast, i) ==
    /\ i <= Len(forecast.daily.weather_code)
    /\ i <= Len(forecast.daily.time)
    /\ i <= Len(forecast.daily.temperature_min)
    /\ i <= Len(forecast.daily.temperature_max)
    /\ i <= Len(forecast.daily.wind_speed_max)
    /\ i <= Len(forecast.daily.precipitation_sum)

format_open_meteo_forecast(forecast) ==
    IF \E i \in 1..OpenMeteoDays(forecast) : ~OpenMeteoInBounds(forecast, i)
    THEN Panicked
    ELSE Returned(
            <<"Weather Forecast (Open-Meteo)\n", "Location: ">>
            \o FmtF64Prec4(forecast.latitude) \o <<", ">>
            \o FmtF64Prec4(forecast.longitude) \o <<"\n", "Timezone: ">>
            \o forecast.timezone \o <<"\n\n">>
            \o Concat([i \in 1..OpenMeteoDays(forecast) |-> OpenMeteoBlock(forecast, i)]))

---------------------------------------------------------------------------
(* models.rs: the decoded shapes.  A response body is a record tagged with *)
(* the shape it deserializes as; OtherBody matches none of them (an error  *)
(* document, a body with a required field missing).                        *)

OtherBody == [shape |-> "other"]

AlertProperties(event, headline, description) ==
    [event |-> event, headline |-> headline, description |-> description,
     severity |-> <<"Severe">>, area_desc |-> <<"Kings County">>]

AlertFeature(props) == [properties |-> props]

AlertResponse(features) == [shape |-> "alerts", features |-> features]

PointsResponse(grid_id, grid_x, grid_y) ==
    [shape |-> "points",
     properties |-> [grid_id |-> grid_id, grid_x |-> grid_x, grid_y |-> grid_y]]

ForecastPeriod(name, temperature) ==
    [name |-> name, temperature |-> temperature, temperature_unit |-> <<"F">>,
     wind_speed |-> <<"5", " to ", "1", "0", " mph">>, wind_direction |-> <<"NW">>,
     short_forecast |-> <<"Sunny">>, detailed_forecast |-> <<"Sunny, with a high near the value above.">>]

ForecastResponse(periods) == [shape |-> "forecast", properties |-> [periods |-> periods]]

DailyUnits == [temperature_max |-> <<"C">>, wind_speed_max |-> <<"km/h">>,
               precipitation_sum |-> <<"mm">>]

OpenMeteoResponse(latitude, longitude, daily) ==
    [shape |-> "open_meteo", latitude |-> latitude, longitude |-> longitude,
     timezone |-> <<"Europe/Berlin">>, daily |-> daily, daily_units |-> DailyUnits]

---------------------------------------------------------------------------
(* Inputs: the tool arguments and the upstream responses the model draws   *)

EventTexts == {<<"Flood Warning">>, <<"Blue Alert">>}

HeadlineTexts == {None, Some(<<>>), Some(<<"Blue ", "Alert ", "issued by NWS">>)}

DescriptionTexts == {None, Some(<<"Heavy rain expected">>)}

AlertRecords ==
    {AlertFeature(AlertProperties(e, h, d)) :
        e \in EventTexts, h \in HeadlineTexts, d \in DescriptionTexts}

RECURSIVE SeqsUpTo(_, _)
SeqsUpTo(S, n) ==
    IF n = 0 THEN {<<>>}
    ELSE LET shorter == SeqsUpTo(S, n - 1)
         IN  shorter \cup {Append(q, x) : q \in shorter, x \in S}

\* what the alert formatter is applied to: every list of up to MaxAlerts records
AlertLists == {AlertResponse(fs) : fs \in SeqsUpTo(AlertRecords, MaxAlerts)}

\* what the alerts endpoint answers in the service model
AlertBodies ==
    {AlertResponse(<<>>),
     AlertResponse(<<AlertFeature(AlertProperties(<<"Flood Warning">>, None, None)),
                     AlertFeature(AlertProperties(<<"Blue Alert">>,
                                     Some(<<"Blue ", "Alert ", "issued by NWS">>),
                                     Some(<<"Heavy rain expected">>)))>>)}

PointsBodies == {PointsResponse(<<"OKX">>, 33, 37), PointsResponse(<<"TOP">>, 404, 40)}

ForecastBodies ==
    {ForecastResponse(<<>>),
     ForecastResponse(<<ForecastPeriod(<<"Tonight">>, 54)>>)}

OpenMeteoBodies ==
    {OpenMeteoResponse(52520, 13410,
        [time |-> << <<"2", "0", "2", "5", "-", "0", "1", "-", "0", "1">>,
                     <<"2", "0", "2", "5", "-", "0", "1", "-", "0", "2">> >>,
         temperature_max |-> <<51, 40>>, temperature_min |-> <<-12, 3>>,
         weather_code |-> <<61, 7>>, wind_speed_max |-> <<123, 80>>,
         precipitation_sum |-> <<0, 25>>]),
     OpenMeteoResponse(52520, 13410,
        [time |-> << <<"2", "0", "2", "5", "-", "0", "1", "-", "0", "1">>,
                     <<"2", "0", "2", "5", "-", "0", "1", "-", "0", "2">> >>,
         temperature_max |-> <<51, 40>>, temperature_min |-> <<-12, 3>>,
         weather_code |-> <<61>>, wind_speed_max |-> <<123, 80>>,
         precipitation_sum |-> <<0, 25>>])}

StateCodes == {<<"CA">>, <<"4", "0", "4">>}

GetAlertsRequests == {[state |-> s] : s \in StateCodes}

\* (40.404, -74.0) and (24.0, -60.0) lie in the box; (52.52, 13.41) and
\* (23.999, -100.0) do not
GetForecastRequests ==
    {[latitude |-> 40404, longitude |-> -74000],
     [latitude |-> 24000, longitude |-> -60000],
     [latitude |-> 52520, longitude |-> 13410],
     [latitude |-> 23999, longitude |-> -100000]}

StatusCodes == {200, 404, 500, 504}

\* the connection failed before any response arrived
TransportFailure == [sent |-> FALSE, status |-> 0, body |-> OtherBody]

HttpResponse(status, body) == [sent |-> TRUE, status |-> status, body |-> body]

\* What the upstream can answer to one fetch whose success body is in bodies
Responses(bodies) ==
    {TransportFailure}
    \cup {HttpResponse(s, OtherBody) : s \in StatusCodes}
    \cup {HttpResponse(200, b) : b \in bodies}

\* the date of the i-th day of a daily response
DateText(i) ==
    <<"2", "0", "2", "5", "-", "0", "1", "-", DigitChars[(i \div 10) + 1], DigitChars[(i % 10) + 1]>>

\* the codes the daily responses carry, day after day
CodeOfDay(i) == <<0, 61, 7, 95, 3, 45, 80>>[((i - 1) % 7) + 1]

\* a daily record whose six arrays have the given lengths
DailyOfLengths(nTime, nMax, nMin, nCode, nWind, nPrecip) ==
    [time |-> [i \in 1..nTime |-> DateText(i)],
     temperature_max |-> [i \in 1..nMax |-> 50 + i],
     temperature_min |-> [i \in 1..nMin |-> i - 15],
     weather_code |-> [i \in 1..nCode |-> CodeOfDay(i)],
     wind_speed_max |-> [i \in 1..nWind |-> 100 + i],
     precipitation_sum |-> [i \in 1..nPrecip |-> i]]

\* what the daily formatter is applied to: N days of data for every N up to
\* MaxDays, and every response whose six arrays have lengths up to MaxRagged,
\* equal or not (the decoder accepts both)
DailyResponses ==
    {OpenMeteoResponse(52520, 13410, DailyOfLengths(n, n, n, n, n, n)) : n \in 0..MaxDays}
    \cup {OpenMeteoResponse(52520, 13410, DailyOfLengths(a, b, c, d, e, f)) :
            a \in 0..MaxRagged, b \in 0..MaxRagged, c \in 0..MaxRagged,
            d \in 0..MaxRagged, e \in 0..MaxRagged, f \in 0..MaxRagged}

\* the codes weather_code_to_description is applied to: every code around the
\* table, and the ends of i32
WeatherCodes == ((-5)..105) \cup {-2147483647 - 1, 2147483647}

\* bodies of a known shape with a required field missing
PartialBodies ==
    {[shape |-> "alerts"],
     [shape |-> "alerts",
      features |-> <<[properties |-> [severity |-> <<"Severe">>, area_desc |-> <<"Kings County">>,
                                      headline |-> None, description |-> None]]>>],
     [shape |-> "points"],
     [shape |-> "points", properties |-> [grid_id |-> <<"OKX">>, grid_x |-> 33]],
     [shape |-> "forecast", properties |-> [updated |-> <<"today">>]],
     [shape |-> "open_meteo", latitude |-> 52520, longitude |-> 13410,
      timezone |-> <<"Europe/Berlin">>, daily_units |-> DailyUnits]}

\* the bodies that are complete for a shape
BodiesOf(shape) ==
    CASE shape = "alerts" -> AlertBodies
      [] shape = "points" -> PointsBodies
      [] shape = "forecast" -> ForecastBodies
      [] shape = "open_meteo" -> OpenMeteoBodies

Shapes == {"alerts", "points", "forecast", "open_meteo"}

AllBodies ==
    AlertBodies \cup PointsBodies \cup ForecastBodies \cup OpenMeteoBodies
    \cup PartialBodies \cup {OtherBody}

\* the statuses make_request is applied to: both ends of the success range,
\* their neighbours outside, and error statuses
RequestStatusCodes == {199, 200, 204, 299, 300, 404, 500}

\* what the upstream can answer to a fetch, any status with any body
AnyResponses ==
    {TransportFailure} \cup {HttpResponse(s, b) : s \in RequestStatusCodes, b \in AllBodies}

LatSamples == {-33868, 23999, 24000, 40404, 52520, 72000, 72001}

LonSamples == {-180001, -180000, -100000, -74000, -60000, -59999, 13410}

---------------------------------------------------------------------------
(* service.rs *)

Ok(data) == [ok |-> TRUE, data |-> data, err |-> <<>>]

Err(msg) == [ok |-> FALSE, data |-> OtherBody, err |-> msg]

\* StatusCode::is_success
is_success(status) == 200 <= status /\ status <= 299

\* Display of a StatusCode: the number, a space, the canonical reason
StatusDisplay(status) ==
    FmtInt(status)
    \o <<" ", CASE status = 200 -> "OK"
                [] status = 204 -> "No Content"
                [] status = 300 -> "Multiple Choices"
                [] status = 404 -> "Not Found"
                [] status = 500 -> "Internal Server Error"
                [] status = 504 -> "Gateway Timeout"
                [] OTHER -> "<unknown status code>">>

\* Display of the reqwest error of a failed send(): it names the URL
SendErrorDisplay(url) == <<"error sending request for url (">> \o url \o <<")">>

\* Display of the reqwest error of a failed json::<T>()
DecodeErrorDisplay == <<"error decoding response body">>

HasFields(rec, fields) == fields \subseteq DOMAIN rec

\* response.json::<T>() succeeds: the body is of the shape T and holds every
\* field the derived Deserialize of T requires (no field of models.rs has a
\* serde default; unknown fields are ignored)
Decodes(shape, body) ==
    /\ body.shape = shape
    /\ CASE shape = "alerts" ->
              /\ HasFields(body, {"features"})
              /\ \A k \in 1..Len(body.features) :
                    /\ HasFields(body.features[k], {"properties"})
                    /\ HasFields(body.features[k].properties,
                                 {"event", "severity", "area_desc"})
         [] shape = "points" ->
              /\ HasFields(body, {"properties"})
              /\ HasFields(body.properties, {"grid_id", "grid_x", "grid_y"})
         [] shape = "forecast" ->
              /\ HasFields(body, {"properties"})
              /\ HasFields(body.properties, {"periods"})
              /\ \A k \in 1..Len(body.properties.periods) :
                    HasFields(body.properties.periods[k],
                              {"name", "temperature", "temperature_unit", "wind_speed",
                               "wind_direction", "short_forecast", "detailed_forecast"})
         [] shape = "open_meteo" ->
              /\ HasFields(body, {"latitude", "longitude", "timezone", "daily", "daily_units"})
              /\ HasFields(body.daily,
                           {"time", "temperature_max", "temperature_min", "weather_code",
                            "wind_speed_max", "precipitation_sum"})
              /\ HasFields(body.daily_units,
                           {"temperature_max", "wind_speed_max", "precipitation_sum"})
         [] OTHER -> FALSE

\* the body decoded whatever the status, and the status looked at only when
\* the body does not decode
make_request_decode_first(shape, url, resp) ==
    IF ~resp.sent THEN Err(SendErrorDisplay(url))
    ELSE IF Decodes(shape, resp.body) THEN Ok(resp.body)
    ELSE IF ~is_success(resp.status)
    THEN Err(<<"Request failed with status: ">> \o StatusDisplay(resp.status))
    ELSE Err(DecodeErrorDisplay)

\* make_request::<T>(url), T being the shape, when the upstream answers resp:
\* Ok(data), or Err(e) with e.to_string() = err
make_request(shape, url, resp) ==
    IF ~resp.sent THEN Err(SendErrorDisplay(url))
    ELSE IF ~is_success(resp.status)
    THEN Err(<<"Request failed with status: ">> \o StatusDisplay(resp.status))
    ELSE IF ~Decodes(shape, resp.body) THEN Err(DecodeErrorDisplay)
    ELSE Ok(resp.body)

\* the bounds taken as exclusive
is_us_location_exclusive(latitude, longitude) ==
    latitude > 24000 /\ latitude < 72000 /\ longitude > -180000 /\ longitude < -60000

is_us_location(latitude, longitude) ==
    latitude >= 24000 /\ latitude <= 72000 /\ longitude >= -180000 /\ longitude <= -60000

\* McpError::invalid_params, McpError::internal_error, CallToolResult::success
invalid_params(message) == [kind |-> "invalid_params", message |-> message, text |-> <<>>]

internal_error(message) == [kind |-> "internal_error", message |-> message, text |-> <<>>]

success(text) == [kind |-> "success", message |-> <<>>, text |-> text]

\* the task that ran the handler unwound: neither Ok nor Err is returned
Unwound == [kind |-> "panic", message |-> <<>>, text |-> <<>>]

NoResult == [kind |-> "none", message |-> <<>>, text |-> <<>>]

alerts_url(request) == NWS_API_BASE \o <<"/alerts/active?area=">> \o request.state

points_url(request) ==
    NWS_API_BASE \o <<"/points/">> \o FmtF64(request.latitude)
    \o <<",">> \o FmtF64(request.longitude)

\* the URL built from a grid point kept on the instance, shared by the
\* invocations: the first one resolved, whoever resolved it
forecast_url_shared(points) ==
    LET holders == {j \in DOMAIN inv : inv[j].points # None}
        used == IF holders = {} THEN points
                ELSE inv[CHOOSE j \in holders : \A h \in holders : j <= h].points[1]
    IN  NWS_API_BASE \o <<"/gridpoints/">> \o used.properties.grid_id
        \o <<"/">> \o FmtInt(used.properties.grid_x)
        \o <<",">> \o FmtInt(used.properties.grid_y) \o <<"/forecast">>

forecast_url(points) ==
    NWS_API_BASE \o <<"/gridpoints/">> \o points.properties.grid_id
    \o <<"/">> \o FmtInt(points.properties.grid_x)
    \o <<",">> \o FmtInt(points.properties.grid_y) \o <<"/forecast">>

open_meteo_url(request) ==
    OPEN_METEO_API_BASE \o <<"/forecast?latitude=">> \o FmtF64(request.latitude)
    \o <<"&longitude=">> \o FmtF64(request.longitude)
    \o <<"&daily=temperature_", "2", "m_max,temperature_", "2",
         "m_min,weather_code,wind_speed_", "1", "0",
         "m_max,precipitation_sum&timezone=auto">>

\* the fixed message of the invalid_params error
CoverageMessage ==
    <<"Location not found in NWS coverage area. This location may be in US waters not covered by the grid system.">>

\* the closure of the points fetch used for the alerts fetch
alerts_map_err_not_found(e) ==
    IF Contains(e, <<"4", "0", "4">>)
    THEN invalid_params(CoverageMessage)
    ELSE internal_error(<<"Failed to fetch alerts: ">> \o e)

\* the map_err closures
alerts_map_err(e) == internal_error(<<"Failed to fetch alerts: ">> \o e)

\* the closure without its not-found case
points_map_err_internal_only(e) ==
    internal_error(<<"Failed to fetch grid points: ">> \o e)

points_map_err(e) ==
    IF Contains(e, <<"4", "0", "4">>)
    THEN invalid_params(CoverageMessage)
    ELSE internal_error(<<"Failed to fetch grid points: ">> \o e)

forecast_map_err(e) == internal_error(<<"Failed to fetch forecast: ">> \o e)

open_meteo_map_err(e) == internal_error(<<"Failed to fetch Open-Meteo forecast: ">> \o e)

\* An invocation: the tool called and its arguments, where the handler is
\* suspended (pc), the URLs it has fetched and the responses it got, in
\* order, its local `points`, how many times a map_err closure ran, and what
\* it returned
Idle ==
    [op |-> "none", request |-> [state |-> <<>>], pc |-> "idle", fetches |-> <<>>,
     resps |-> <<>>, points |-> None, mapped |-> 0, result |-> NoResult]

\* the handler suspends at the send() of a first fetch
Started(op, request, pc, url) ==
    [Idle EXCEPT !.op = op, !.request = request, !.pc = pc, !.fetches = <<url>>]

\* `?` on the mapped error: the handler returns Err(error)
Failed(r, resp, error) ==
    [r EXCEPT !.resps = Append(@, resp), !.mapped = @ + 1,
              !.result = error, !.pc = "done"]

\* the handler returns (or unwinds) after its last fetch succeeded
Finished(r, resp, result) ==
    [r EXCEPT !.resps = Append(@, resp), !.result = result, !.pc = "done"]

\* get_alerts up to the await of its make_request
get_alerts(request) == Started("get_alerts", request, "alerts", alerts_url(request))

\* get_alerts from there on
get_alerts_resume(r, resp) ==
    LET alerts == make_request("alerts", r.fetches[1], resp)
    IN  IF ~alerts.ok THEN Failed(r, resp, alerts_map_err(alerts.err))
        ELSE Finished(r, resp, success(format_alerts(alerts.data)))

\* get_forecast_nws up to the await of the points request
get_forecast_nws(request) == Started("get_forecast", request, "points", points_url(request))

\* the points request sent a second time after it failed once
get_forecast_nws_points_retry(r, resp) ==
    LET points == make_request("points", r.fetches[1], resp)
    IN  IF ~points.ok /\ Len(r.fetches) < 2
        THEN [r EXCEPT !.resps = Append(@, resp), !.fetches = Append(@, r.fetches[1])]
        ELSE IF ~points.ok THEN Failed(r, resp, points_map_err(points.err))
        ELSE [r EXCEPT !.resps = Append(@, resp), !.points = Some(points.data),
                       !.fetches = Append(@, forecast_url(points.data)),
                       !.pc = "forecast"]

\* get_forecast_nws from the points response to the await of the forecast request
get_forecast_nws_points(r, resp) ==
    LET points == make_request("points", r.fetches[1], resp)
    IN  IF ~points.ok THEN Failed(r, resp, points_map_err(points.err))
        ELSE [r EXCEPT !.resps = Append(@, resp), !.points = Some(points.data),
                       !.fetches = Append(@, forecast_url(points.data)),
                       !.pc = "forecast"]

\* get_forecast_nws from the forecast response on
get_forecast_nws_forecast(r, resp) ==
    LET forecast == make_request("forecast", r.fetches[2], resp)
    IN  IF ~forecast.ok THEN Failed(r, resp, forecast_map_err(forecast.err))
        ELSE Finished(r, resp, success(format_forecast(forecast.data)))

\* get_forecast_open_meteo up to the await of its make_request
get_forecast_open_meteo(request) ==
    Started("get_forecast", request, "open_meteo", open_meteo_url(request))

\* get_forecast_open_meteo from there on
get_forecast_open_meteo_resume(r, resp) ==
    LET forecast == make_request("open_meteo", r.fetches[1], resp)
    IN  IF ~forecast.ok THEN Failed(r, resp, open_meteo_map_err(forecast.err))
        ELSE LET formatted == format_open_meteo_forecast(forecast.data)
             IN  IF formatted.returned
                 THEN Finished(r, resp, success(formatted.text))
                 ELSE Finished(r, resp, Unwound)

\* the two branches of get_forecast exchanged
get_forecast_swapped(request) ==
    IF is_us_location(request.latitude, request.longitude)
    THEN get_forecast_open_meteo(request)
    ELSE get_forecast_nws(request)

get_forecast(request) ==
    IF is_us_location(request.latitude, request.longitude)
    THEN get_forecast_nws(request)
    ELSE get_forecast_open_meteo(request)

---------------------------------------------------------------------------
(* The state machine: the host runs up to MaxInv invocations concurrently  *)
(* on one Weather instance; each step is one handler running from one      *)
(* await to the next.                                                      *)

Invocations == 1..MaxInv

NoCall == [fn |-> "none"]

Init ==
    /\ inv = [i \in Invocations |-> Idle]
    /\ pure = NoCall

CallGetAlerts(i) ==
    /\ inv[i].pc = "idle"
    /\ \E request \in GetAlertsRequests :
         inv' = [inv EXCEPT ![i] = get_alerts(request)]
    /\ UNCHANGED pure

CallGetForecast(i) ==
    /\ inv[i].pc = "idle"
    /\ \E request \in GetForecastRequests :
         inv' = [inv EXCEPT ![i] = get_forecast(request)]
    /\ UNCHANGED pure

AlertsResponse(i) ==
    /\ inv[i].pc = "alerts"
    /\ \E resp \in Responses(AlertBodies) :
         inv' = [inv EXCEPT ![i] = get_alerts_resume(inv[i], resp)]
    /\ UNCHANGED pure

GridPointsResponse(i) ==
    /\ inv[i].pc = "points"
    /\ \E resp \in Responses(PointsBodies) :
         inv' = [inv EXCEPT ![i] = get_forecast_nws_points(inv[i], resp)]
    /\ UNCHANGED pure

PeriodsResponse(i) ==
    /\ inv[i].pc = "forecast"
    /\ \E resp \in Responses(ForecastBodies) :
         inv' = [inv EXCEPT ![i] = get_forecast_nws_forecast(inv[i], resp)]
    /\ UNCHANGED pure

DailyResponse(i) ==
    /\ inv[i].pc = "open_meteo"
    /\ \E resp \in Responses(OpenMeteoBodies) :
         inv' = [inv EXCEPT ![i] = get_forecast_open_meteo_resume(inv[i], resp)]
    /\ UNCHANGED pure

Next ==
    \E i \in Invocations :
        \/ CallGetAlerts(i)
        \/ CallGetForecast(i)
        \/ AlertsResponse(i)
        \/ GridPointsResponse(i)
        \/ PeriodsResponse(i)
        \/ DailyResponse(i)

Spec == Init /\ [][Next]_vars

---------------------------------------------------------------------------
(* The pure functions, applied to inputs drawn from bounded sets           *)

Apply_is_us_location ==
    /\ pure = NoCall
    /\ \E latitude \in LatSamples, longitude \in LonSamples :
         pure' = [fn |-> "is_us_location", latitude |-> latitude,
                  longitude |-> longitude,
                  result |-> is_us_location(latitude, longitude)]
    /\ UNCHANGED inv

Apply_format_alerts ==
    /\ pure = NoCall
    /\ \E alerts \in AlertLists :
         pure' = [fn |-> "format_alerts", alerts |-> alerts,
                  text |-> format_alerts(alerts)]
    /\ UNCHANGED inv

Apply_format_open_meteo_forecast ==
    /\ pure = NoCall
    /\ \E forecast \in DailyResponses :
         pure' = [fn |-> "format_open_meteo_forecast", forecast |-> forecast,
                  formatted |-> format_open_meteo_forecast(forecast)]
    /\ UNCHANGED inv

Apply_weather_code_to_description ==
    /\ pure = NoCall
    /\ \E code \in WeatherCodes :
         pure' = [fn |-> "weather_code_to_description", code |-> code,
                  description |-> weather_code_to_description(code)]
    /\ UNCHANGED inv

Apply_make_request ==
    /\ pure = NoCall
    /\ \E shape \in Shapes, resp \in AnyResponses :
         pure' = [fn |-> "make_request", shape |-> shape, resp |-> resp,
                  returned |-> make_request(shape, points_url([latitude |-> 40404,
                                                               longitude |-> -74000]), resp)]
    /\ UNCHANGED inv

PureNext ==
    \/ Apply_is_us_location
    \/ Apply_format_alerts
    \/ Apply_format_open_meteo_forecast
    \/ Apply_weather_code_to_description
    \/ Apply_make_request

PureSpec == Init /\ [][PureNext]_vars

---------------------------------------------------------------------------
(* Vocabulary of the properties *)

StartsWith(text, prefix) ==
    Len(text) >= Len(prefix) /\ SubSeq(text, 1, Len(prefix)) = prefix

IsNwsUrl(url) == StartsWith(url, <<"https://api.weather.gov">>)

IsOpenMeteoUrl(url) == StartsWith(url, <<"https://api.open-meteo.com/v", "1">>)

IsPointsUrl(url) == StartsWith(url, <<"https://api.weather.gov", "/points/">>)

IsGridpointsUrl(url) == StartsWith(url, <<"https://api.weather.gov", "/gridpoints/">>)

\* the invocation r is a get_forecast for coordinates inside / outside the box
IsUsForecast(r) ==
    r.op = "get_forecast" /\ is_us_location(r.request.latitude, r.request.longitude)

IsOtherForecast(r) ==
    r.op = "get_forecast" /\ ~is_us_location(r.request.latitude, r.request.longitude)

\* the shape the k-th fetch of invocation r is decoded as
FetchShape(r, k) ==
    IF r.op = "get_alerts" THEN "alerts"
    ELSE IF IsPointsUrl(r.fetches[k]) THEN "points"
    ELSE IF IsGridpointsUrl(r.fetches[k]) THEN "forecast"
    ELSE "open_meteo"

\* the k-th fetch of r failed: no response, a non-success status, or a body
\* that is not of the expected shape
FetchFailed(r, k) ==
    \/ ~r.resps[k].sent
    \/ ~(r.resps[k].status \in 200..299)
    \/ r.resps[k].body.shape # FetchShape(r, k)

IsError(result) == result.kind \in {"invalid_params", "internal_error"}

---------------------------------------------------------------------------
(* C1 *)

\* C1: in every get_forecast invocation is_us_location decides the fetches:
\* when it is true the first fetch is the NWS /points/<lat>,<lon> URL and no
\* Open-Meteo URL is fetched; when it is false exactly one fetch is issued, to
\* the Open-Meteo /forecast URL with that latitude and longitude, and no NWS
\* URL is fetched.
C1_RoutingDecidesFetches ==
    \A i \in Invocations :
        LET r == inv[i]
            lat == FmtF64(r.request.latitude)
            lon == FmtF64(r.request.longitude)
        IN  r.op = "get_forecast" =>
              IF is_us_location(r.request.latitude, r.request.longitude)
              THEN /\ Len(r.fetches) >= 1
                   /\ r.fetches[1] =
                        <<"https://api.weather.gov", "/points/">> \o lat \o <<",">> \o lon
                   /\ \A k \in 1..Len(r.fetches) : ~IsOpenMeteoUrl(r.fetches[k])
              ELSE /\ Len(r.fetches) = 1
                   /\ StartsWith(r.fetches[1],
                        <<"https://api.open-meteo.com/v", "1", "/forecast?latitude=">>
                        \o lat \o <<"&longitude=">> \o lon \o <<"&daily=temperature_">>)
                   /\ ~IsNwsUrl(r.fetches[1])

\* an invocation inside the box that has issued both NWS fetches runs beside
\* one outside the box that has finished
C1_Witness ==
    \E i, j \in Invocations :
        /\ IsUsForecast(inv[i]) /\ Len(inv[i].fetches) = 2
        /\ IsOtherForecast(inv[j]) /\ inv[j].pc = "done"

---------------------------------------------------------------------------
(* C2 *)

\* C2: is_us_location(latitude, longitude) is true exactly when
\* 24.0 <= latitude <= 72.0 and -180.0 <= longitude <= -60.0, the four
\* boundary values included: (24.0, -60.0) and (72.0, -180.0) are true, a
\* latitude just below 24.0 or a longitude just above -60.0 is false.
C2_IsUsLocationBox ==
    pure.fn = "is_us_location" =>
        /\ pure.result <=> (/\ pure.latitude \in 24000..72000
                            /\ pure.longitude \in (-180000)..(-60000))
        /\ (pure.latitude = 24000 /\ pure.longitude = -60000) => pure.result
        /\ (pure.latitude = 72000 /\ pure.longitude = -180000) => pure.result
        /\ pure.latitude = 23999 => ~pure.result
        /\ pure.longitude = -59999 => ~pure.result

\* the classifier was applied to the corner (24.0, -60.0) and answered true
C2_Witness ==
    /\ pure.fn = "is_us_location"
    /\ pure.latitude = 24000 /\ pure.longitude = -60000
    /\ pure.result

---------------------------------------------------------------------------
(* C3 *)

\* C3: in get_forecast_nws, when the /points fetch gets status 404 the
\* invocation returns invalid_params with the fixed coverage message; when it
\* gets any other non-success status it returns an internal error whose
\* message embeds that numeric status; in both cases the gridpoints forecast
\* fetch is not issued.
C3_PointsStatusMapping ==
    \A i \in Invocations :
        LET r == inv[i]
        IN  (/\ IsUsForecast(r)
             /\ Len(r.resps) >= 1
             /\ r.resps[1].sent
             /\ ~(r.resps[1].status \in 200..299)) =>
              /\ r.pc = "done"
              /\ Len(r.fetches) = 1
              /\ \A k \in 1..Len(r.fetches) : ~IsGridpointsUrl(r.fetches[k])
              /\ IF r.resps[1].status = 404
                 THEN /\ r.result.kind = "invalid_params"
                      /\ r.result.message = CoverageMessage
                 ELSE /\ r.result.kind = "internal_error"
                      /\ Contains(r.result.message, FmtInt(r.resps[1].status))

\* one points fetch was answered 404 and another 500
C3_Witness ==
    \E i, j \in Invocations :
        /\ IsUsForecast(inv[i]) /\ inv[i].pc = "done"
        /\ inv[i].resps[1].sent /\ inv[i].resps[1].status = 404
        /\ IsUsForecast(inv[j]) /\ inv[j].pc = "done"
        /\ inv[j].resps[1].sent /\ inv[j].resps[1].status = 500

---------------------------------------------------------------------------
(* C4 *)

\* C4: an invalid_params error is returned only when the /points fetch got
\* the HTTP status 404; every other fetch failure (transport, decode, any
\* other status, for any coordinates and any message text, on any of the four
\* fetches) is returned as an internal error embedding the underlying message.
C4_InvalidParamsOnlyOnPoints404 ==
    \A i \in Invocations :
        LET r == inv[i]
            k == Len(r.resps)
        IN  (r.pc = "done" /\ FetchFailed(r, k)) =>
              IF IsPointsUrl(r.fetches[k]) /\ r.resps[k].sent /\ r.resps[k].status = 404
              THEN r.result.kind = "invalid_params"
              ELSE /\ r.result.kind = "internal_error"
                   /\ Contains(r.result.message,
                               make_request(FetchShape(r, k), r.fetches[k], r.resps[k]).err)

---------------------------------------------------------------------------
(* C5 *)

\* C5: get_alerts issues exactly one fetch, to the NWS
\* /alerts/active?area=<state> URL with the state unchanged; when that fetch
\* fails for any reason (a 404 included) the invocation returns an internal
\* error carrying the upstream error message, never invalid_params; when it
\* succeeds the invocation returns the format_alerts text of the response.
C5_GetAlerts ==
    \A i \in Invocations :
        LET r == inv[i]
        IN  r.op = "get_alerts" =>
              /\ r.fetches =
                   << <<"https://api.weather.gov", "/alerts/active?area=">> \o r.request.state >>
              /\ r.result.kind # "invalid_params"
              /\ r.pc = "done" =>
                   IF FetchFailed(r, 1)
                   THEN /\ r.result.kind = "internal_error"
                        /\ r.result.message =
                             <<"Failed to fetch alerts: ">>
                             \o make_request("alerts", r.fetches[1], r.resps[1]).err
                        /\ (r.resps[1].sent /\ ~(r.resps[1].status \in 200..299)) =>
                              Contains(r.result.message, FmtInt(r.resps[1].status))
                   ELSE /\ r.result.kind = "success"
                        /\ r.result.text = format_alerts(r.resps[1].body)

\* one get_alerts was answered 404 and ended in an internal error, another
\* was answered a non-empty alert list and ended in its formatted text
C5_Witness ==
    \E i, j \in Invocations :
        /\ inv[i].op = "get_alerts" /\ inv[i].pc = "done"
        /\ inv[i].resps[1].sent /\ inv[i].resps[1].status = 404
        /\ inv[i].result.kind = "internal_error"
        /\ inv[j].op = "get_alerts" /\ inv[j].pc = "done"
        /\ inv[j].result.kind = "success"
        /\ Count(inv[j].result.text, "Alert ") > 0

---------------------------------------------------------------------------
(* C6 *)

\* C6: every invocation whose fetches all completed ends in exactly one of
\* two outcomes, a success carrying one formatted text or an error
\* (invalid_params or internal), never both and never a third; an error
\* carries no formatted text (so when the points fetch succeeds and the
\* gridpoints forecast fetch fails, the result is an error only).
C6_TwoTerminalOutcomes ==
    \A i \in Invocations :
        LET r == inv[i]
        IN  r.pc = "done" =>
              /\ r.result.kind \in {"success", "invalid_params", "internal_error"}
              /\ r.result.kind = "success" => r.result.message = <<>>
              /\ IsError(r.result) => r.result.text = <<>>
              /\ (Len(r.resps) = 2 /\ FetchFailed(r, 2)) =>
                    IsError(r.result) /\ r.result.text = <<>>

---------------------------------------------------------------------------
(* C7 *)

\* the number of failed fetches of invocation r
FailedFetches(r) == Cardinality({k \in 1..Len(r.resps) : FetchFailed(r, k)})

\* C7: no fetch is retried: within one invocation each URL is fetched at most
\* once; get_alerts and the Open-Meteo path issue exactly 1 fetch, the NWS
\* path at most 2 (points, then gridpoints forecast); after the first failed
\* fetch the invocation issues no further fetch; each failure is mapped to a
\* tool-level error exactly once.
C7_NoRetry ==
    \A i \in Invocations :
        LET r == inv[i]
        IN  r.op # "none" =>
              /\ \A k, l \in 1..Len(r.fetches) : r.fetches[k] = r.fetches[l] => k = l
              /\ (r.op = "get_alerts" \/ IsOtherForecast(r)) => Len(r.fetches) = 1
              /\ IsUsForecast(r) =>
                   /\ Len(r.fetches) \in 1..2
                   /\ IsPointsUrl(r.fetches[1])
                   /\ Len(r.fetches) = 2 => IsGridpointsUrl(r.fetches[2])
              /\ \A k \in 1..Len(r.resps) : FetchFailed(r, k) => k = Len(r.fetches)
              /\ r.mapped = FailedFetches(r)
              /\ r.mapped <= 1
              /\ r.pc = "done" => (IsError(r.result) <=> r.mapped = 1)

\* a points fetch failed in one invocation, and in another the points fetch
\* succeeded and the gridpoints forecast fetch failed
C7_Witness ==
    \E i, j \in Invocations :
        /\ IsUsForecast(inv[i]) /\ inv[i].pc = "done"
        /\ Len(inv[i].fetches) = 1 /\ inv[i].mapped = 1
        /\ IsUsForecast(inv[j]) /\ inv[j].pc = "done"
        /\ Len(inv[j].fetches) = 2 /\ inv[j].mapped = 1

---------------------------------------------------------------------------
(* C8 *)

\* C8: with invocations running concurrently on one Weather instance, the
\* outcome of each is a function of its own arguments and of the responses to
\* its own fetches only (two invocations with the same arguments that got the
\* same responses issued the same fetches and hold the same result, whatever
\* else ran beside them), and the gridpoints forecast URL of an NWS
\* invocation is built from the grid id/x/y of its own points response.
C8_InvocationsIndependent ==
    /\ \A i, j \in Invocations :
          (/\ inv[i].op = inv[j].op
           /\ inv[i].request = inv[j].request
           /\ inv[i].resps = inv[j].resps) => inv[i] = inv[j]
    /\ \A i \in Invocations :
          LET r == inv[i]
          IN  (IsUsForecast(r) /\ Len(r.fetches) = 2) =>
                LET grid == r.resps[1].body.properties
                IN  r.fetches[2] =
                      <<"https://api.weather.gov", "/gridpoints/">> \o grid.grid_id
                      \o <<"/">> \o FmtInt(grid.grid_x) \o <<",">> \o FmtInt(grid.grid_y)
                      \o <<"/forecast">>

\* two NWS invocations resolved different grid points; one then failed its
\* forecast fetch and the other returned its forecast
C8_Witness ==
    \E i, j \in Invocations :
        /\ IsUsForecast(inv[i]) /\ IsUsForecast(inv[j])
        /\ Len(inv[i].fetches) = 2 /\ Len(inv[j].fetches) = 2
        /\ inv[i].resps[1].body # inv[j].resps[1].body
        /\ inv[i].pc = "done" /\ inv[i].result.kind = "internal_error"
        /\ inv[j].pc = "done" /\ inv[j].result.kind = "success"

---------------------------------------------------------------------------
(* C9, C10 *)

\* the records format_alerts was applied to
PureRecords == [k \in 1..Len(pure.alerts.features) |-> pure.alerts.features[k].properties]

\* the contents of the fields of a record, one after the other
FieldText(props) ==
    props.event \o props.severity \o props.area_desc
    \o Concat(props.headline) \o Concat(props.description)

\* the places of the output where a block header starts: an "Alert " followed
\* by a number
HeaderPositions(text) ==
    LET IsHeader(p) == text[p] = "Alert " /\ p < Len(text) /\ IsDigit(text[p + 1])
    IN  SelectSeq([p \in 1..Len(text) |-> p], IsHeader)

\* the k-th block of the output: from its header to the next header
OutputBlock(text, k) ==
    LET hp == HeaderPositions(text)
    IN  SubSeq(text, hp[k], IF k < Len(hp) THEN hp[k + 1] - 1 ELSE Len(text))

\* every header is numbered with its rank and followed by the Event line of
\* the record of that rank
NumberedInOrder ==
    LET hp == HeaderPositions(pure.text)
    IN  /\ Len(hp) = Len(PureRecords)
        /\ \A k \in 1..Len(hp) :
              StartsWith(SubSeq(pure.text, hp[k], Len(pure.text)),
                         <<"Alert ">> \o FmtInt(k) \o <<":\n", "  Event: ">>
                         \o PureRecords[k].event \o <<"\n">>)

\* C9 (as claimed): for N >= 1 records with any field contents the output
\* of format_alerts contains exactly N occurrences of the literal "Alert ",
\* and the blocks are numbered 1..N in the order of the input records.
C9_ExactlyNAlertLiterals ==
    (pure.fn = "format_alerts" /\ Len(PureRecords) >= 1) =>
        /\ Count(pure.text, "Alert ") = Len(PureRecords)
        /\ NumberedInOrder

\* C9 (amended): for N >= 1 records format_alerts writes exactly N block
\* headers "Alert k:", k = 1..N in the order of the input records, and the
\* output contains the literal "Alert " N times plus once for every
\* occurrence inside the records' field contents (so exactly N times when no
\* field contains it).
C9_NHeadersPlusFieldOccurrences ==
    (pure.fn = "format_alerts" /\ Len(PureRecords) >= 1) =>
        /\ Count(pure.text, "Alert ") =
             Len(PureRecords)
             + Count(Concat([k \in 1..Len(PureRecords) |-> FieldText(PureRecords[k])]),
                     "Alert ")
        /\ NumberedInOrder
        /\ (\A k \in 1..Len(PureRecords) : Count(FieldText(PureRecords[k]), "Alert ") = 0)
              => Count(pure.text, "Alert ") = Len(PureRecords)

\* format_alerts was applied to two records, the second with a headline that
\* holds the literal "Alert "
C9_Witness ==
    /\ pure.fn = "format_alerts"
    /\ Len(PureRecords) = 2
    /\ Count(FieldText(PureRecords[1]), "Alert ") = 0
    /\ Count(FieldText(PureRecords[2]), "Alert ") = 1

\* C10: for every record, format_alerts writes a "Headline:" line in the
\* record's block exactly when the headline is present and a "Description:"
\* line exactly when the description is present; a record with neither yields
\* a block of the Alert, Event, Severity and Area lines only.
C10_OptionalLines ==
    pure.fn = "format_alerts" =>
        \A k \in 1..Len(PureRecords) :
            LET props == PureRecords[k]
                block == OutputBlock(pure.text, k)
            IN  /\ Count(block, "  Headline: ") = (IF props.headline # None THEN 1 ELSE 0)
                /\ Count(block, "  Description: ") =
                     (IF props.description # None THEN 1 ELSE 0)
                /\ props.headline # None =>
                     Contains(block, <<"  Headline: ">> \o props.headline[1] \o <<"\n">>)
                /\ props.description # None =>
                     Contains(block, <<"  Description: ">> \o props.description[1] \o <<"\n">>)
                /\ (props.headline = None /\ props.description = None) =>
                     block = <<"Alert ">> \o FmtInt(k) \o <<":\n">>
                             \o <<"  Event: ">> \o props.event \o <<"\n">>
                             \o <<"  Severity: ">> \o props.severity \o <<"\n">>
                             \o <<"  Area: ">> \o props.area_desc \o <<"\n", "\n">>

\* format_alerts was applied to a record with neither headline nor
\* description followed by a record with both
C10_Witness ==
    /\ pure.fn = "format_alerts"
    /\ Len(PureRecords) = 2
    /\ PureRecords[1].headline = None /\ PureRecords[1].description = None
    /\ PureRecords[2].headline # None /\ PureRecords[2].description # None
    /\ Count(pure.text, "  Headline: ") = 1

---------------------------------------------------------------------------
(* C11, C14 *)

\* the six daily arrays of the response have one length
SameLengths(daily) ==
    /\ Len(daily.temperature_max) = Len(daily.time)
    /\ Len(daily.temperature_min) = Len(daily.time)
    /\ Len(daily.weather_code) = Len(daily.time)
    /\ Len(daily.wind_speed_max) = Len(daily.time)
    /\ Len(daily.precipitation_sum) = Len(daily.time)

\* the places of the output where the Temperature line of a day block starts
DayPositions(text) ==
    LET IsDay(p) == text[p] = "  Temperature: "
    IN  SelectSeq([p \in 1..Len(text) |-> p], IsDay)

MinOf(a, b) == IF a < b THEN a ELSE b

\* C11: for a response with N days of data format_open_meteo_forecast renders
\* exactly min(7, N) day blocks, for the indices 0..min(7, N)-1 in increasing
\* order: 10 days render the first seven, 3 days render 3, 0 days render the
\* header only.
C11_TruncatesToSevenDays ==
    (pure.fn = "format_open_meteo_forecast" /\ SameLengths(pure.forecast.daily)) =>
        LET daily == pure.forecast.daily
            n     == Len(daily.time)
            text  == pure.formatted.text
            dp    == DayPositions(text)
        IN  /\ pure.formatted.returned
            /\ Len(dp) = MinOf(7, n)
            /\ Count(text, "  Conditions: ") = MinOf(7, n)
            /\ n = 10 => Len(dp) = 7
            /\ n = 3 => Len(dp) = 3
            /\ n = 0 => text = <<"Weather Forecast (Open-Meteo)\n", "Location: ",
                                 "5", "2", ".", "5", "2", "0", "0", ", ",
                                 "1", "3", ".", "4", "1", "0", "0", "\n",
                                 "Timezone: ", "Europe/Berlin", "\n\n">>
            /\ \A k \in 1..Len(dp) :
                  /\ dp[k] > Len(daily.time[k]) + 1
                  /\ SubSeq(text, dp[k] - Len(daily.time[k]) - 1, dp[k] - 1)
                       = daily.time[k] \o <<":\n">>

\* the formatter was applied to 10 days of data and wrote 7 day blocks
C11_Witness ==
    /\ pure.fn = "format_open_meteo_forecast"
    /\ SameLengths(pure.forecast.daily)
    /\ Len(pure.forecast.daily.time) = 10
    /\ pure.formatted.returned
    /\ Len(DayPositions(pure.formatted.text)) = 7

\* C14: for every response that decodes, format_open_meteo_forecast reads only
\* indices that exist in each of the six daily arrays: every rendered index is
\* below the length of all six, so the formatter always returns text, also
\* when the decoded arrays have different lengths.
C14_ReadsOnlyExistingIndices ==
    pure.fn = "format_open_meteo_forecast" =>
        /\ \A i \in 1..MinOf(7, Len(pure.forecast.daily.time)) :
              /\ i <= Len(pure.forecast.daily.temperature_max)
              /\ i <= Len(pure.forecast.daily.temperature_min)
              /\ i <= Len(pure.forecast.daily.weather_code)
              /\ i <= Len(pure.forecast.daily.wind_speed_max)
              /\ i <= Len(pure.forecast.daily.precipitation_sum)
        /\ pure.formatted.returned

---------------------------------------------------------------------------
(* C12 *)

\* the WMO table: the description of every code that has one
WmoTable ==
    {<<{0}, "Clear sky">>, <<{1}, "Mainly clear">>, <<{2}, "Partly cloudy">>,
     <<{3}, "Overcast">>, <<{45, 48}, "Foggy">>, <<{51, 53, 55}, "Drizzle">>,
     <<{61, 63, 65}, "Rain">>, <<{71, 73, 75}, "Snow">>, <<{77}, "Snow grains">>,
     <<{80, 81, 82}, "Rain showers">>, <<{85, 86}, "Snow showers">>,
     <<{95}, "Thunderstorm">>, <<{96, 99}, "Thunderstorm with hail">>}

\* C12: weather_code_to_description maps every integer code as the WMO table
\* says (0 Clear sky, ..., 96 and 99 Thunderstorm with hail), and every other
\* code (7, a negative code) to Unknown.
C12_WeatherCodeTable ==
    pure.fn = "weather_code_to_description" =>
        /\ \A row \in WmoTable : pure.code \in row[1] => pure.description = row[2]
        /\ (\A row \in WmoTable : pure.code \notin row[1]) => pure.description = "Unknown"
        /\ pure.code = 61 => pure.description = "Rain"
        /\ pure.code = 2 => pure.description = "Partly cloudy"
        /\ pure.code = 7 => pure.description = "Unknown"
        /\ pure.code < 0 => pure.description = "Unknown"

\* the function was applied to a code between two codes of one group
C12_Witness ==
    /\ pure.fn = "weather_code_to_description"
    /\ pure.code = 52
    /\ pure.description = "Unknown"

---------------------------------------------------------------------------
(* C13 *)

\* C13: make_request looks at the status before it decodes: on a non-success
\* status it fails with a request-failed error naming the status and returns
\* no body, whatever the body holds; on a success status it returns a value
\* only if the body is of the expected shape with every required field, and
\* fails with a decode error otherwise.
C13_StatusBeforeDecode ==
    (pure.fn = "make_request" /\ pure.resp.sent) =>
        LET resp == pure.resp
            res  == pure.returned
        IN  IF resp.status \in 200..299
            THEN /\ res.ok <=> resp.body \in BodiesOf(pure.shape)
                 /\ res.ok => res.data = resp.body
                 /\ ~res.ok => res.err = <<"error decoding response body">>
            ELSE /\ ~res.ok
                 /\ res.data # resp.body \/ resp.body = OtherBody
                 /\ StartsWith(res.err, <<"Request failed with status: ">> \o FmtInt(resp.status))

\* make_request was applied to a 404 response whose body would decode, and to
\* a 200 response of the right shape with a required field missing
C13_Witness ==
    /\ pure.fn = "make_request"
    /\ pure.resp.sent
    /\ \/ /\ pure.resp.status = 404
          /\ pure.resp.body \in BodiesOf(pure.shape)
          /\ ~pure.returned.ok
       \/ /\ pure.resp.status = 200
          /\ pure.resp.body \in PartialBodies
          /\ pure.resp.body.shape = pure.shape
          /\ ~pure.returned.ok

=============================================================================
